---- MODULE Spec2Model ----
(***************************************************************************)
(* Model of ig-tools/detect_non_followers.py: the link extractor, the      *)
(* diff-based link filter and the batch opener of main.  Documents are     *)
(* TLA+ strings; indices into Python lists are kept 0-based as in the      *)
(* source, indices into strings are 1-based as in Sequences.               *)
(***************************************************************************)
EXTENDS Integers, Sequences, FiniteSets, TLC

\* ------------------------------------------------------------------------
\* Strings
\* ------------------------------------------------------------------------

\* Does the literal lit occur in s starting at position p?
HasAt(s, p, lit) ==
    /\ p >= 1
    /\ p + Len(lit) - 1 <= Len(s)
    /\ SubSeq(s, p, p + Len(lit) - 1) = lit

\* Python's `sub in s` for strings.
Contains(s, sub) == \E p \in 1..(Len(s) - Len(sub) + 1) : HasAt(s, p, sub)

\* Python's `x in list`.
InList(x, list) == \E k \in 1..Len(list) : list[k] = x

\* "".join(list[lo..hi]), by halves.
RECURSIVE JoinRange(_, _, _)
JoinRange(list, lo, hi) ==
    IF lo > hi THEN ""
    ELSE IF lo = hi THEN list[lo]
    ELSE JoinRange(list, lo, (lo + hi) \div 2)
         \o JoinRange(list, (lo + hi) \div 2 + 1, hi)

\* "".join(list)
Join(list) == JoinRange(list, 1, Len(list))

\* min(S) of a non-empty set of integers.
SetMin(S) == CHOOSE m \in S : \A r \in S : m <= r

Max(x, y) == IF x >= y THEN x ELSE y
Min(x, y) == IF x <= y THEN x ELSE y

\* ------------------------------------------------------------------------
\* extract_links: re.findall(r'href="(https?://[^"]+)"', html_content)
\* ------------------------------------------------------------------------

\* The positions of the double quotes of s.
QuotePositions(s) == {q \in 1..Len(s) : SubSeq(s, q, q) = "\""}

\* Position of the first double quote at or after p, 0 when none; quotes is
\* QuotePositions of the text.
FindQuote(quotes, p) ==
    LET Q == {q \in quotes : q >= p}
    IN  IF Q = {} THEN 0 ELSE SetMin(Q)

\* The regex tried at position p of s: the position of the closing quote of
\* the match, 0 when the regex does not match there.  `s?` is greedy, and
\* giving it back cannot help because "s" is not ":"; `[^"]+` takes every
\* character up to the next quote (newlines included) and needs at least one.
MatchAt(s, quotes, p) ==
    IF ~HasAt(s, p, "href=\"http") THEN 0
    ELSE LET q1 == p + 10
             q2 == IF HasAt(s, q1, "s://") THEN q1 + 4
                   ELSE IF HasAt(s, q1, "://") THEN q1 + 3
                   ELSE 0
             c  == IF q2 = 0 THEN 0 ELSE FindQuote(quotes, q2)
         IN  IF q2 # 0 /\ c > q2 THEN c ELSE 0

\* findall: leftmost non-overlapping matches, group 1 of each.  starts are
\* the positions where the regex matches; the scan resumes after the closing
\* quote of a match.
RECURSIVE FindAllFrom(_, _, _, _)
FindAllFrom(s, quotes, starts, p) ==
    LET rest == {m \in starts : m >= p}
    IN  IF rest = {} THEN <<>>
        ELSE LET m == SetMin(rest)
                 c == MatchAt(s, quotes, m)
             IN  <<SubSeq(s, m + 6, c - 1)>> \o FindAllFrom(s, quotes, starts, c + 1)

extract_links(html_content) ==
    LET quotes == QuotePositions(html_content)
        \* a match starts five characters before a quote (href=")
        starts == {p \in {q - 5 : q \in quotes} :
                      MatchAt(html_content, quotes, p) # 0}
    IN  FindAllFrom(html_content, quotes, starts, 1)

\* ------------------------------------------------------------------------
\* str.splitlines(keepends=True)
\* ------------------------------------------------------------------------

\* The line boundaries of str.splitlines: line feed, carriage return, form
\* feed, vertical tab (0x0b), file, group and record separator (0x1c, 0x1d,
\* 0x1e) and next line (U+0085).  The boundaries U+2028 and U+2029 cannot be
\* written in a TLA+ string, so no text of the model holds them.
IsLineBreak(c) == c \in {"\n", "\r", "\f", "", "", "", "", ""}

\* The positions of s where a line ends: every line break, except a "\r"
\* that a "\n" follows ("\r\n" is one boundary), and the last character of
\* the text when it is not a line break.
LineEnds(s) ==
    {p \in 1..Len(s) :
        \/ p = Len(s)
        \/ /\ IsLineBreak(SubSeq(s, p, p))
           /\ ~(SubSeq(s, p, p) = "\r" /\ SubSeq(s, p + 1, p + 1) = "\n")}

\* The members of S between lo and hi in increasing order, by halves.
RECURSIVE SortedRange(_, _, _)
SortedRange(S, lo, hi) ==
    IF lo > hi THEN <<>>
    ELSE IF lo = hi THEN (IF lo \in S THEN <<lo>> ELSE <<>>)
    ELSE SortedRange(S, lo, (lo + hi) \div 2)
         \o SortedRange(S, (lo + hi) \div 2 + 1, hi)

\* The lines of s, given the sorted positions where they end.
LinesEndingAt(s, ends) ==
    [k \in 1..Len(ends) |->
        SubSeq(s, IF k = 1 THEN 1 ELSE ends[k - 1] + 1, ends[k])]

splitlines(s) == LinesEndingAt(s, SortedRange(LineEnds(s), 1, Len(s)))

\* ------------------------------------------------------------------------
\* difflib.unified_diff(a, b) with the defaults the call leaves in place:
\* no file names, no dates, n = 3 lines of context, lineterm = "\n", and a
\* SequenceMatcher with isjunk = None and autojunk = True.  a and b are
\* sequences of lines; list positions are 0-based as in difflib.
\* ------------------------------------------------------------------------

\* Context lines of unified_diff (parameter n, default 3).
ContextLines == 3

\* Length of b from which SequenceMatcher drops popular lines.
AutojunkMinLen == 200

\* Python's a[i1:i2] for 0 <= i1 <= i2 <= len(a).
Slice(a, i1, i2) == SubSeq(a, i1 + 1, i2)

\* The popular lines of b (SequenceMatcher.__chain_b): when b has 200 lines
\* or more, the lines that occur more than len(b) // 100 + 1 times.  They
\* are taken out of b2j, so no match is found on them; a match can only be
\* extended over them.
Popular(b) ==
    IF Len(b) >= AutojunkMinLen
    THEN {b[k] : k \in {m \in 1..Len(b) :
              Cardinality({q \in 1..Len(b) : b[q] = b[m]}) > Len(b) \div 100 + 1}}
    ELSE {}

\* Length of the longest common run of lines that are not popular, ending at
\* a[i] and b[j] and staying inside a[alo:] and b[blo:] (the j2len table of
\* find_longest_match): the first step back at which the run breaks.
RunLen(a, b, popular, alo, blo, i, j) ==
    LET lim    == Min(i - alo, j - blo) + 1
        breaks == {t \in 0..(lim - 1) :
                      \/ a[i - t + 1] # b[j - t + 1]
                      \/ b[j - t + 1] \in popular}
    IN  IF breaks = {} THEN lim ELSE SetMin(breaks)

\* The first extension loop of find_longest_match backwards: how many equal
\* lines lie directly before a[i] and b[j] inside the window.  (No line is
\* junk, so the junk test of the loop never stops it and the second pair of
\* loops does nothing.)
ExtendBack(a, b, alo, blo, i, j) ==
    LET lim    == Min(i - alo, j - blo)
        breaks == {t \in 1..lim : a[i - t + 1] # b[j - t + 1]}
    IN  IF breaks = {} THEN lim ELSE SetMin(breaks) - 1

\* The same loop forwards: how many equal lines lie from a[i] and b[j] on.
ExtendForward(a, b, ahi, bhi, i, j) ==
    LET lim    == Min(ahi - i, bhi - j)
        breaks == {t \in 0..(lim - 1) : a[i + t + 1] # b[j + t + 1]}
    IN  IF breaks = {} THEN lim ELSE SetMin(breaks)

\* The block x = (i, j, k) grown backwards, and grown forwards.
GrownBack(a, b, alo, blo, x) ==
    LET back == ExtendBack(a, b, alo, blo, x[1], x[2])
    IN  <<x[1] - back, x[2] - back, x[3] + back>>

GrownForward(a, b, ahi, bhi, x) ==
    <<x[1], x[2], x[3] + ExtendForward(a, b, ahi, bhi, x[1] + x[3], x[2] + x[3])>>

\* The scan of find_longest_match over b2j: the longest block of lines that
\* are not popular; of the longest, the one that starts first in a, and of
\* those the one that starts first in b (the scan takes a new best only when
\* strictly longer).  <<alo, blo, 0>> when nothing matches.
LongestRun(a, b, popular, alo, ahi, blo, bhi) ==
    LET Ends == {e \in (alo..(ahi - 1)) \X (blo..(bhi - 1)) :
                    a[e[1] + 1] = b[e[2] + 1] /\ b[e[2] + 1] \notin popular}
        K(e) == RunLen(a, b, popular, alo, blo, e[1], e[2])
    IN  IF Ends = {} THEN <<alo, blo, 0>>
        ELSE LET best == CHOOSE e \in Ends : \A f \in Ends :
                            \/ K(e) > K(f)
                            \/ K(e) = K(f) /\ e[1] < f[1]
                            \/ K(e) = K(f) /\ e[1] = f[1] /\ e[2] <= f[2]
                 k == K(best)
             IN  <<best[1] - k + 1, best[2] - k + 1, k>>

\* SequenceMatcher.find_longest_match: the scan, then the extension loops.
find_longest_match(a, b, alo, ahi, blo, bhi) ==
    GrownForward(a, b, ahi, bhi,
        GrownBack(a, b, alo, blo,
            LongestRun(a, b, Popular(b), alo, ahi, blo, bhi)))

\* The blocks get_matching_blocks collects from its work queue: the longest
\* match (i, j, k) of the window, then the blocks of the windows left and
\* right of it.
RECURSIVE MatchingBlockSet(_, _, _, _, _, _)
RECURSIVE BlocksAround(_, _, _, _, _, _, _, _, _)
BlocksAround(a, b, alo, ahi, blo, bhi, i, j, k) ==
    IF k = 0 THEN {}
    ELSE {<<i, j, k>>}
         \cup (IF alo < i /\ blo < j
               THEN MatchingBlockSet(a, b, alo, i, blo, j) ELSE {})
         \cup (IF i + k < ahi /\ j + k < bhi
               THEN MatchingBlockSet(a, b, i + k, ahi, j + k, bhi) ELSE {})

BlocksOf(a, b, alo, ahi, blo, bhi, x) ==
    BlocksAround(a, b, alo, ahi, blo, bhi, x[1], x[2], x[3])

MatchingBlockSet(a, b, alo, ahi, blo, bhi) ==
    BlocksOf(a, b, alo, ahi, blo, bhi,
             find_longest_match(a, b, alo, ahi, blo, bhi))

\* Tuple order of Python on the (i, j, k) triples.
BlockLE(x, y) ==
    \/ x[1] < y[1]
    \/ x[1] = y[1] /\ x[2] < y[2]
    \/ x[1] = y[1] /\ x[2] = y[2] /\ x[3] <= y[3]

\* matching_blocks.sort()
RECURSIVE SortBlocks(_)
SortBlocks(S) ==
    IF S = {} THEN <<>>
    ELSE LET m == CHOOSE x \in S : \A y \in S : BlockLE(x, y)
         IN  <<m>> \o SortBlocks(S \ {m})

\* The loop of get_matching_blocks that merges adjacent blocks; (i1, j1, k1)
\* is the block being grown, p the next position of the sorted list.
RECURSIVE CollapseBlocks(_, _, _, _, _)
CollapseBlocks(blocks, p, i1, j1, k1) ==
    IF p > Len(blocks)
    THEN IF k1 # 0 THEN <<<<i1, j1, k1>>>> ELSE <<>>
    ELSE LET i2 == blocks[p][1]
             j2 == blocks[p][2]
             k2 == blocks[p][3]
         IN  IF i1 + k1 = i2 /\ j1 + k1 = j2
             THEN CollapseBlocks(blocks, p + 1, i1, j1, k1 + k2)
             ELSE (IF k1 # 0 THEN <<<<i1, j1, k1>>>> ELSE <<>>)
                  \o CollapseBlocks(blocks, p + 1, i2, j2, k2)

\* SequenceMatcher.get_matching_blocks: ends with the sentinel (la, lb, 0).
get_matching_blocks(a, b) ==
    CollapseBlocks(SortBlocks(MatchingBlockSet(a, b, 0, Len(a), 0, Len(b))),
                   1, 0, 0, 0)
    \o <<<<Len(a), Len(b), 0>>>>

\* The loop of get_opcodes over the matching blocks from position p on;
\* (i, j) is where the previous block ended.
RECURSIVE OpcodesFrom(_, _, _, _)
OpcodesFrom(blocks, p, i, j) ==
    IF p > Len(blocks) THEN <<>>
    ELSE LET ai   == blocks[p][1]
             bj   == blocks[p][2]
             size == blocks[p][3]
             tag  == IF i < ai /\ j < bj THEN "replace"
                     ELSE IF i < ai THEN "delete"
                     ELSE IF j < bj THEN "insert"
                     ELSE ""
         IN  (IF tag # "" THEN <<<<tag, i, ai, j, bj>>>> ELSE <<>>)
             \o (IF size # 0
                 THEN <<<<"equal", ai, ai + size, bj, bj + size>>>> ELSE <<>>)
             \o OpcodesFrom(blocks, p + 1, ai + size, bj + size)

\* SequenceMatcher.get_opcodes
get_opcodes(a, b) == OpcodesFrom(get_matching_blocks(a, b), 1, 0, 0)

\* The grouping loop of get_grouped_opcodes from position p of codes on;
\* group is the group being built.  The result is the list of groups.
RECURSIVE GroupFrom(_, _, _, _)
GroupFrom(codes, p, group, n) ==
    IF p > Len(codes)
    THEN IF group # <<>> /\ ~(Len(group) = 1 /\ group[1][1] = "equal")
         THEN <<group>> ELSE <<>>
    ELSE LET c   == codes[p]
             tag == c[1]
             i1  == c[2]
             i2  == c[3]
             j1  == c[4]
             j2  == c[5]
         IN  IF tag = "equal" /\ i2 - i1 > n + n
             THEN <<Append(group, <<tag, i1, Min(i2, i1 + n), j1, Min(j2, j1 + n)>>)>>
                  \o GroupFrom(codes, p + 1,
                               <<<<tag, Max(i1, i2 - n), i2, Max(j1, j2 - n), j2>>>>, n)
             ELSE GroupFrom(codes, p + 1, Append(group, c), n)

\* The first opcode, when it is an equal range, cut to its last n lines.
TrimLeading(codes, n) ==
    IF codes[1][1] = "equal"
    THEN [codes EXCEPT ![1] =
             <<@[1], Max(@[2], @[3] - n), @[3], Max(@[4], @[5] - n), @[5]>>]
    ELSE codes

\* The last opcode, when it is an equal range, cut to its first n lines.
TrimTrailing(codes, n) ==
    IF codes[Len(codes)][1] = "equal"
    THEN [codes EXCEPT ![Len(codes)] =
             <<@[1], @[2], Min(@[3], @[2] + n), @[4], Min(@[5], @[4] + n)>>]
    ELSE codes

\* `if not codes: codes = [("equal", 0, 1, 0, 1)]`
OrOneEqual(codes) == IF codes = <<>> THEN <<<<"equal", 0, 1, 0, 1>>>> ELSE codes

\* SequenceMatcher.get_grouped_opcodes(n): the leading and the trailing
\* equal range are cut to n lines first.
get_grouped_opcodes(a, b, n) ==
    GroupFrom(TrimTrailing(TrimLeading(OrOneEqual(get_opcodes(a, b)), n), n),
              1, <<>>, n)

\* difflib._format_range_unified
format_range_unified(start, stop) ==
    LET length == stop - start
    IN  IF length = 1 THEN ToString(start + 1)
        ELSE IF length = 0 THEN ToString(start) \o "," \o ToString(length)
        ELSE ToString(start + 1) \o "," \o ToString(length)

\* Every line of `lines` with the one-character prefix in front.
Prefixed(prefix, lines) == [k \in 1..Len(lines) |-> prefix \o lines[k]]

\* The lines unified_diff yields for one opcode.
OpcodeLines(a, b, c) ==
    IF c[1] = "equal" THEN Prefixed(" ", Slice(a, c[2], c[3]))
    ELSE (IF c[1] \in {"replace", "delete"}
          THEN Prefixed("-", Slice(a, c[2], c[3])) ELSE <<>>)
         \o (IF c[1] \in {"replace", "insert"}
             THEN Prefixed("+", Slice(b, c[4], c[5])) ELSE <<>>)

RECURSIVE GroupBody(_, _, _, _)
GroupBody(a, b, group, p) ==
    IF p > Len(group) THEN <<>>
    ELSE OpcodeLines(a, b, group[p]) \o GroupBody(a, b, group, p + 1)

\* The hunk header and the lines of one group.
GroupLines(a, b, group) ==
    LET first == group[1]
        last  == group[Len(group)]
    IN  <<"@@ -" \o format_range_unified(first[2], last[3])
          \o " +" \o format_range_unified(first[4], last[5]) \o " @@\n">>
        \o GroupBody(a, b, group, 1)

RECURSIVE GroupsLines(_, _, _, _)
GroupsLines(a, b, groups, p) ==
    IF p > Len(groups) THEN <<>>
    ELSE GroupLines(a, b, groups[p]) \o GroupsLines(a, b, groups, p + 1)

\* The lines unified_diff yields for the groups: nothing when there is no
\* group, else the two file header lines and the hunks.
DiffLines(a, b, groups) ==
    IF groups = <<>> THEN <<>>
    ELSE <<"--- \n", "+++ \n">> \o GroupsLines(a, b, groups, 1)

\* Variant: the file header is written before the first group is asked for.
unified_diff_AlwaysHeader(a, b) ==
    <<"--- \n", "+++ \n">>
    \o GroupsLines(a, b, get_grouped_opcodes(a, b, ContextLines), 1)

\* difflib.unified_diff(a, b) as a list of lines.
unified_diff(a, b) == DiffLines(a, b, get_grouped_opcodes(a, b, ContextLines))

\* ------------------------------------------------------------------------
\* find_and_extract_diff_links
\* ------------------------------------------------------------------------

\* The domain test of the filter loop.
InstagramDomain == "https://www.instagram.com/"

\* Variant: the loop without the test against the links of `followings`.
RECURSIVE FilterLinks_NoBase(_, _)
FilterLinks_NoBase(extracted_links, base_links) ==
    IF extracted_links = <<>> THEN <<>>
    ELSE LET link == Head(extracted_links)
         IN  (IF Contains(link, InstagramDomain) THEN <<link>> ELSE <<>>)
             \o FilterLinks_NoBase(Tail(extracted_links), base_links)

\* Variant: the loop without the domain test.
RECURSIVE FilterLinks_NoDomain(_, _)
FilterLinks_NoDomain(extracted_links, base_links) ==
    IF extracted_links = <<>> THEN <<>>
    ELSE LET link == Head(extracted_links)
         IN  (IF ~InList(link, base_links) THEN <<link>> ELSE <<>>)
             \o FilterLinks_NoDomain(Tail(extracted_links), base_links)

\* The loop over extracted_links: a link is kept when it contains the domain
\* string and is not among the links of the whole `followings` text.
RECURSIVE FilterLinks(_, _)
FilterLinks(extracted_links, base_links) ==
    IF extracted_links = <<>> THEN <<>>
    ELSE LET link == Head(extracted_links)
         IN  (IF Contains(link, InstagramDomain) /\ ~InList(link, base_links)
              THEN <<link>> ELSE <<>>)
             \o FilterLinks(Tail(extracted_links), base_links)

\* The text the links are extracted from.
diff_content(followers, followings) ==
    Join(unified_diff(splitlines(followings), splitlines(followers)))

\* Variant: the links are tested against those of `followers`.
find_and_extract_diff_links_WrongBase(followers, followings) ==
    FilterLinks(extract_links(diff_content(followers, followings)),
                extract_links(followers))

find_and_extract_diff_links(followers, followings) ==
    FilterLinks(extract_links(diff_content(followers, followings)),
                extract_links(followings))

\* ------------------------------------------------------------------------
\* Inputs
\* ------------------------------------------------------------------------

\* Lines of an exported page in which every href attribute is closed on the
\* line that opens it.  LineMixed holds an Instagram link and two links that
\* are not on the Instagram domain, the second of them with the domain
\* string in its query, and has no line break.
LineAlice == "<a href=\"https://www.instagram.com/alice/\">alice</a>\n"
LineBob   == "<a href=\"https://www.instagram.com/bob/\">bob</a>\n"
LineOther == "<a href=\"https://twitter.com/carol\">c</a> <a href=\"https://t.co/?u=https://www.instagram.com/x\">x</a>"
LineMixed == "<a href=\"https://www.instagram.com/dave/\">d</a> " \o LineOther

PageLines == {LineAlice, LineBob, LineMixed}

\* Fragments of arbitrary text: an href left open, the rest of a link that
\* spans two lines, a lone quote, an empty line.
FragOpen  == "<a href=\"https://www.instagram.com/a"
FragClose == "b\">\n"
FragQuote == "\""
FragEmpty == "\n"

\* Files in which an href attribute is not closed on the line that opens
\* it: a link with a line feed inside, alone and after a whole line, a link
\* with a next line character (U+0085) inside, and an href left open at the
\* end of the file.
LineSplit == "<a href=\"https://www.instagram.com/a\nb\">s</a>\n"
LineNel   == "<a href=\"https://www.instagram.com/ab\">s</a>\n"

BrokenPages == {LineSplit, LineAlice \o LineSplit, LineNel, FragOpen}

RawFragments == {LineAlice, LineOther, FragOpen, FragClose, FragQuote, FragEmpty}

\* Longest document, in lines of PageLines.
MaxLines == 2
\* Longest document, in fragments of RawFragments.
MaxFragments == 2
\* Largest --num-tabs in absolute value.
MaxTabs == 3

\* The texts made of at most n pieces of the set `pieces`.
RECURSIVE Texts(_, _)
Texts(pieces, n) ==
    IF n = 0 THEN {""}
    ELSE LET shorter == Texts(pieces, n - 1)
         IN  shorter \cup {t \o p : t \in shorter, p \in pieces}

Pages    == Texts(PageLines, MaxLines)
\* Contents of the two files main reads.
Files    == Pages \cup BrokenPages
RawTexts == Texts(RawFragments, MaxFragments)

\* Values of args.followers and args.followings: unset, or a path.
FollowersPaths  == {"", "followers.html"}
FollowingsPaths == {"", "followings.html"}

\* --duration default (seconds).
DefaultDuration == 30

\* Values of args.duration: any integer is accepted.
Durations == {-1, 0, DefaultDuration}

\* ------------------------------------------------------------------------
\* main
\* ------------------------------------------------------------------------

VARIABLES
    pc,              \* where main is
    followers_file,  \* args.followers
    followings_file, \* args.followings
    num_tabs,        \* args.num_tabs
    duration,        \* args.duration
    followers,       \* text read from the followers file
    followings,      \* text read from the followings file
    new_links,       \* the list that is counted and opened
    index,           \* start of the current chunk (0-based)
    i,               \* position of the inner loop (0-based)
    out              \* what the run has done so far, in order

vars == <<pc, followers_file, followings_file, num_tabs, duration,
          followers, followings, new_links, index, i, out>>

\* The effects a run leaves in `out`.
Printed(text) == <<"print", text>>
Opened(url)   == <<"open", url>>
Slept(secs)   == <<"sleep", secs>>
Read(path)    == <<"read", path>>

MsgBothFiles == "Please provide both followers and followings HTML files."
MsgNoLinks   == "No new Instagram links were found in Followers compared to Followings."
MsgCount(n)  == "Number of non-followers found: " \o ToString(n)
MsgChunk(n)  == "Opening new links in chunks of " \o ToString(n)

Init ==
    /\ pc = "check_args"
    /\ followers_file \in FollowersPaths
    /\ followings_file \in FollowingsPaths
    /\ num_tabs \in (-MaxTabs)..MaxTabs
    /\ duration \in Durations
    /\ followers = ""
    /\ followings = ""
    /\ new_links = <<>>
    /\ index = 0
    /\ i = 0
    /\ out = <<>>

\* Variant: the message only when both paths are missing.
CheckArgs_BothMissing ==
    /\ pc = "check_args"
    /\ IF followers_file = "" /\ followings_file = ""
       THEN /\ out' = Append(out, Printed(MsgBothFiles))
            /\ pc' = "done"
       ELSE /\ out' = out
            /\ pc' = "read_files"
    /\ UNCHANGED <<followers_file, followings_file, num_tabs, duration,
                   followers, followings, new_links, index, i>>

\* Lines 63-65: a missing path ends the run with a message.
CheckArgs ==
    /\ pc = "check_args"
    /\ IF followers_file = "" \/ followings_file = ""
       THEN /\ out' = Append(out, Printed(MsgBothFiles))
            /\ pc' = "done"
       ELSE /\ out' = out
            /\ pc' = "read_files"
    /\ UNCHANGED <<followers_file, followings_file, num_tabs, duration,
                   followers, followings, new_links, index, i>>

\* Lines 67-70: the followers file is opened and read, then the followings
\* file; their contents are the run's input, exported pages and files with
\* an href that is not closed on its line.  Either open() or read() can
\* raise (the path names no file, the file is not UTF-8), which ends main:
\* at the followers file, or at the followings file after the followers
\* file has been read.
ReadFiles ==
    /\ pc = "read_files"
    /\ \/ /\ out' = Append(out, Read(followers_file))
          /\ pc' = "error"
          /\ UNCHANGED <<followers, followings>>
       \/ /\ \E fw \in Files : followers' = fw
          /\ out' = out \o <<Read(followers_file), Read(followings_file)>>
          /\ pc' = "error"
          /\ UNCHANGED followings
       \/ /\ \E fw \in Files, fg \in Files :
                /\ followers' = fw
                /\ followings' = fg
          /\ out' = out \o <<Read(followers_file), Read(followings_file)>>
          /\ pc' = "find_links"
    /\ UNCHANGED <<followers_file, followings_file, num_tabs, duration,
                   new_links, index, i>>

\* Variant: the call with the arguments in the order of the parameters.
NonFollowers_Unswapped(fw, fg) == find_and_extract_diff_links(fw, fg)

\* Line 72: the call of main, which passes the followings text as the
\* first argument and the followers text as the second.
NonFollowers(fw, fg) == find_and_extract_diff_links(fg, fw)

\* Lines 72-75 and 83-84: the list is computed and its length printed; an
\* empty list prints the second message and ends the run.
FindLinks ==
    /\ pc = "find_links"
    /\ new_links' = NonFollowers(followers, followings)
    /\ IF new_links' # <<>>
       THEN /\ out' = Append(out, Printed(MsgCount(Len(new_links'))))
            /\ pc' = "batch"
       ELSE /\ out' = out \o <<Printed(MsgCount(Len(new_links'))),
                               Printed(MsgNoLinks)>>
            /\ pc' = "done"
    /\ UNCHANGED <<followers_file, followings_file, num_tabs, duration,
                   followers, followings, index, i>>

\* Variant: the stop value belongs to the range.
InRange_Inclusive(n, stop, step) == IF step > 0 THEN n <= stop ELSE n >= stop

\* Is `n` a value of range(0, stop, step)?  (step # 0)
InRange(n, stop, step) == IF step > 0 THEN n < stop ELSE n > stop

\* Variant: a step of 0 gives an empty loop instead of an error.
BatchHead_NoError ==
    /\ pc = "batch"
    /\ IF num_tabs # 0 /\ InRange(index, Len(new_links), num_tabs)
       THEN /\ out' = Append(out, Printed(MsgChunk(index)))
            /\ i' = index
            /\ pc' = "open"
       ELSE /\ pc' = "done"
            /\ UNCHANGED <<i, out>>
    /\ UNCHANGED <<followers_file, followings_file, num_tabs, duration,
                   followers, followings, new_links, index>>

\* Lines 76-77: the head of the outer loop.  range() with step 0 raises
\* ValueError; with the next index in range the chunk starts.
BatchHead ==
    /\ pc = "batch"
    /\ IF num_tabs = 0
       THEN /\ pc' = "error"
            /\ UNCHANGED <<i, out>>
       ELSE IF InRange(index, Len(new_links), num_tabs)
       THEN /\ out' = Append(out, Printed(MsgChunk(index)))
            /\ i' = index
            /\ pc' = "open"
       ELSE /\ pc' = "done"
            /\ UNCHANGED <<i, out>>
    /\ UNCHANGED <<followers_file, followings_file, num_tabs, duration,
                   followers, followings, new_links, index>>

\* Variant: the inner loop runs one position too far.
ChunkStop_OffByOne(idx, n) == idx + n + 1

\* The upper bound of the inner loop: range(index, index + num_tabs).
ChunkStop(idx, n) == idx + n

\* Lines 78-81: one iteration of the inner loop; positions beyond the list
\* are skipped.
OpenLink ==
    /\ pc = "open"
    /\ i < ChunkStop(index, num_tabs)
    /\ IF i < Len(new_links)
       THEN out' = out \o <<Printed(new_links[i + 1]), Opened(new_links[i + 1])>>
       ELSE out' = out
    /\ i' = i + 1
    /\ UNCHANGED <<pc, followers_file, followings_file, num_tabs, duration,
                   followers, followings, new_links, index>>

\* Variant: no pause after the last chunk.
Sleep_NotAfterLast ==
    /\ pc = "open"
    /\ ~(i < ChunkStop(index, num_tabs))
    /\ IF index + num_tabs < Len(new_links)
       THEN /\ out' = Append(out, Slept(duration))
            /\ IF duration < 0
               THEN pc' = "error" /\ index' = index
               ELSE pc' = "batch" /\ index' = index + num_tabs
       ELSE /\ out' = out
            /\ pc' = "batch"
            /\ index' = index + num_tabs
    /\ UNCHANGED <<followers_file, followings_file, num_tabs, duration,
                   followers, followings, new_links, i>>

\* Line 82: the inner loop is over; time.sleep is called, then the next
\* index.  time.sleep raises ValueError for a negative duration.
Sleep ==
    /\ pc = "open"
    /\ ~(i < ChunkStop(index, num_tabs))
    /\ out' = Append(out, Slept(duration))
    /\ IF duration < 0
       THEN pc' = "error" /\ index' = index
       ELSE pc' = "batch" /\ index' = index + num_tabs
    /\ UNCHANGED <<followers_file, followings_file, num_tabs, duration,
                   followers, followings, new_links, i>>

Next ==
    \/ CheckArgs
    \/ ReadFiles
    \/ FindLinks
    \/ BatchHead
    \/ OpenLink
    \/ Sleep

Spec == Init /\ [][Next]_vars

\* ------------------------------------------------------------------------
\* find_and_extract_diff_links on its own, over arbitrary texts.  Here
\* `followers` and `followings` are the two parameters of the function and
\* new_links is what it returns.
\* ------------------------------------------------------------------------

InitFn ==
    /\ pc = "call"
    /\ followers \in RawTexts
    /\ followings \in RawTexts
    /\ followers_file = ""
    /\ followings_file = ""
    /\ num_tabs = 1
    /\ duration = DefaultDuration
    /\ new_links = <<>>
    /\ index = 0
    /\ i = 0
    /\ out = <<>>

CallFn ==
    /\ pc = "call"
    /\ new_links' = find_and_extract_diff_links(followers, followings)
    /\ pc' = "returned"
    /\ UNCHANGED <<followers_file, followings_file, num_tabs, duration,
                   followers, followings, index, i, out>>

NextFn == CallFn

SpecFn == InitFn /\ [][NextFn]_vars

\* ------------------------------------------------------------------------
\* Properties
\* ------------------------------------------------------------------------

Alice == "https://www.instagram.com/alice/"
Bob   == "https://www.instagram.com/bob/"
Dave  == "https://www.instagram.com/dave/"
Carol == "https://twitter.com/carol"
LinkX == "https://t.co/?u=https://www.instagram.com/x"

\* The set of the elements of a list.
Elems(list) == {list[k] : k \in 1..Len(list)}

\* The last thing the run did.
LastOut == out[Len(out)]

\* main has just computed and counted the list (the state after line 75 or
\* line 84); followers, followings and new_links do not change afterwards.
ListFresh ==
    \/ pc = "batch" /\ index = 0
    \/ pc = "done" /\ LastOut = Printed(MsgNoLinks)

\* main ended at lines 67-70, before the count was printed: a file could
\* not be opened or read.
ReadFailed == pc = "error" /\ Len(out) <= 2

\* The count main printed is n.
CountPrinted(n) == \E p \in 1..Len(out) : out[p] = Printed(MsgCount(n))

\* The links of `doc` that carry the Instagram domain string and are not
\* links of `base`, in the order and number in which they occur in `doc`.
LinksOnlyIn(doc, base) ==
    LET baseLinks == extract_links(base)
    IN  SelectSeq(extract_links(doc),
                  LAMBDA l : Contains(l, InstagramDomain) /\ ~InList(l, baseLinks))

\* The two openings of an href attribute that the regex of extract_links
\* accepts.
HrefOpeners == {"href=\"http://", "href=\"https://"}

\* Every href attribute of the text is closed on the line that opens it:
\* each opening (its own quote is its sixth character) is followed by a
\* double quote with no line break before it.
ClosedHrefs(doc) ==
    LET quotes == QuotePositions(doc)
    IN  \A q \in quotes : \A o \in HrefOpeners :
            HasAt(doc, q - 5, o)
                => LET from == q - 5 + Len(o)
                       c    == FindQuote(quotes, from)
                   IN  /\ c # 0
                       /\ \A k \in from..(c - 1) :
                              ~IsLineBreak(SubSeq(doc, k, k))

\* Both files of the run are such texts.
WellFormedFiles == ClosedHrefs(followers) /\ ClosedHrefs(followings)

\* The positions of `o` that hold an effect of the given kind.
RECURSIVE PositionsFrom(_, _, _)
PositionsFrom(o, kind, p) ==
    IF p > Len(o) THEN <<>>
    ELSE (IF o[p][1] = kind THEN <<p>> ELSE <<>>) \o PositionsFrom(o, kind, p + 1)

IsChunkHeader(e) ==
    e[1] = "print" /\ HasAt(e[2], 1, "Opening new links in chunks of ")

RECURSIVE HeadersFrom(_, _)
HeadersFrom(o, p) ==
    IF p > Len(o) THEN <<>>
    ELSE (IF IsChunkHeader(o[p]) THEN <<p>> ELSE <<>>) \o HeadersFrom(o, p + 1)

\* Positions in `out` of the chunk headers, of the opens and of the sleeps,
\* each in increasing order.
Headers == HeadersFrom(out, 1)
Opens   == PositionsFrom(out, "open", 1)
Sleeps  == PositionsFrom(out, "sleep", 1)

\* The URLs passed to the browser so far, in order.
OpenedUrls == [k \in 1..Len(Opens) |-> out[Opens[k]][2]]

\* The URLs opened in chunk k (1-based): the opens after the k-th header and
\* before the next one.
ChunkUrls(k) ==
    LET from == Headers[k]
        to   == IF k < Len(Headers) THEN Headers[k + 1] ELSE Len(out) + 1
        sel  == SelectSeq(Opens, LAMBDA p : from < p /\ p < to)
    IN  [m \in 1..Len(sel) |-> out[sel[m]][2]]

\* ceil(x / y) for x >= 0, y >= 1
CeilDiv(x, y) == (x + y - 1) \div y

\* The batch loop has run to its end over a non-empty list.
BatchDone == pc = "done" /\ new_links # <<>> /\ num_tabs >= 1

\* C1 as stated: after main has computed the list, it consists of the
\* Instagram links of the followers document that are not links of the
\* followings document, and that many are counted; followings = {alice},
\* followers = {alice, bob} gives [bob] with count 1.
C1_FollowersMinusFollowings ==
    ListFresh =>
        /\ new_links = LinksOnlyIn(followers, followings)
        /\ (followings = LineAlice /\ followers = LineAlice \o LineBob
              => new_links = <<Bob>> /\ CountPrinted(1))

\* C1 amended: after main has computed the list over two files in which
\* every href attribute is closed on the line that opens it, it consists, in order and number, of the links of the followings document
\* that carry the Instagram domain string and are not links of the followers
\* document, and its length is the count printed.  Followings = {alice} with followers = {alice, bob}
\* gives the empty list and count 0, followings = {alice, bob} with
\* followers = {alice} gives [bob] and count 1, and an empty followers
\* document with one Instagram link in followings gives that one link.
C1_FollowingsMinusFollowers ==
    (ListFresh /\ WellFormedFiles) =>
        /\ new_links = LinksOnlyIn(followings, followers)
        /\ CountPrinted(Len(new_links))
        /\ (followings = LineAlice /\ followers = LineAlice \o LineBob
              => new_links = <<>> /\ CountPrinted(0))
        /\ (followings = LineAlice \o LineBob /\ followers = LineAlice
              => new_links = <<Bob>> /\ CountPrinted(1))
        /\ (followers = "" /\ followings = LineAlice => new_links = <<Alice>>)

C1_Witness ==
    /\ pc = "batch" /\ index = 0
    /\ followings = LineAlice \o LineBob
    /\ followers = LineAlice
    /\ new_links = <<Bob>>
    /\ LastOut = Printed(MsgCount(1))

\* C2 as stated: in a run of main, a link is in the list that is counted
\* and opened if and only if it is an Instagram link (its URL begins with
\* https://www.instagram.com/) of the followings file and it is not a link
\* of the followers file, whatever the two files hold.
C2_InstagramLinkOfFollowingsOnly ==
    ListFresh =>
        LET fg == extract_links(followings)
            fw == extract_links(followers)
        IN  \A l \in Elems(fg) \cup Elems(fw) \cup Elems(new_links) :
                InList(l, new_links)
                    <=> /\ InList(l, fg)
                        /\ HasAt(l, 1, InstagramDomain)
                        /\ ~InList(l, fw)

\* A run of main that lists a link of neither file: the followers file has
\* a link with a line break inside, the followings file is empty, and the
\* link taken from the two removed lines of the diff is listed.
C2_LinkOfNeitherFile ==
    /\ pc = "batch" /\ index = 0
    /\ followers = LineSplit
    /\ followings = ""
    /\ new_links = <<"https://www.instagram.com/a\n-b">>

\* C2 amended: in a run of main on two files in which every href attribute
\* is closed on the line that opens it, a link is in the list that is
\* counted and opened if and only if it is a link of the followings file
\* that contains the string https://www.instagram.com/ (anywhere in the URL)
\* and it is not a link of the followers file.
C2_FollowedNotFollowingBack ==
    (ListFresh /\ WellFormedFiles) =>
        LET fg == extract_links(followings)
            fw == extract_links(followers)
        IN  \A l \in Elems(fg) \cup Elems(fw) \cup Elems(new_links) :
                InList(l, new_links)
                    <=> /\ InList(l, fg)
                        /\ Contains(l, InstagramDomain)
                        /\ ~InList(l, fw)

\* The list holds the link with the domain string in its query, which does
\* not begin with it, next to two links that do; the twitter link of the
\* followings file and the link of the followers file are not listed.
C2_Witness ==
    /\ pc = "batch" /\ index = 0
    /\ WellFormedFiles
    /\ followings = LineAlice \o LineMixed
    /\ followers = LineBob
    /\ new_links = <<Alice, Dave, LinkX>>

\* C3: no link that find_and_extract_diff_links returns is a link of its
\* followings argument, also when the link occurs in an added line of the
\* diff.
C3_NoLinkOfFollowings ==
    pc = "returned" =>
        LET base == extract_links(followings)
        IN  \A k \in 1..Len(new_links) : ~InList(new_links[k], base)

\* A link of followings occurs in an added line of the diff (the followers
\* text has it on a line that followings does not have) and is not returned.
C3_Witness ==
    /\ pc = "returned"
    /\ followings = LineAlice
    /\ followers = FragQuote \o LineAlice
    /\ InList("+" \o FragQuote \o LineAlice,
              unified_diff(splitlines(followings), splitlines(followers)))
    /\ new_links = <<>>

\* C4: when both files have been read and the followers text and the
\* followings text are identical, the diff is empty and the list is empty:
\* main prints count 0 and the second message, opens no link and does not
\* sleep.
C4_IdenticalGivesNothing ==
    (pc \notin {"check_args", "read_files", "find_links"}
        /\ followers_file # "" /\ followings_file # ""
        /\ ~ReadFailed
        /\ followers = followings)
    => /\ new_links = <<>>
       /\ (ListFresh => diff_content(followings, followers) = "")
       /\ pc = "done"
       /\ out = <<Read(followers_file), Read(followings_file),
                  Printed(MsgCount(0)), Printed(MsgNoLinks)>>

C4_Witness ==
    /\ pc = "done"
    /\ followers = LineAlice \o LineMixed
    /\ followings = followers
    /\ new_links = <<>>
    /\ CountPrinted(0)

\* C5 as stated: every returned link begins with the Instagram domain
\* prefix.
C5_BeginsWithDomain ==
    pc = "returned" =>
        \A k \in 1..Len(new_links) : HasAt(new_links[k], 1, InstagramDomain)

\* C5 amended: every link that find_and_extract_diff_links returns contains
\* the string https://www.instagram.com/ (anywhere in the URL); a link that
\* does not contain it is never returned, whatever the two texts and
\* wherever it occurs in the diff.
C5_ContainsDomain ==
    pc = "returned" =>
        \A k \in 1..Len(new_links) : Contains(new_links[k], InstagramDomain)

\* The diff carries the twitter link, which is dropped, and the link with
\* the domain string in its query, which is returned.
C5_Witness ==
    /\ pc = "returned"
    /\ followers = LineOther
    /\ followings = ""
    /\ InList(Carol, extract_links(diff_content(followers, followings)))
    /\ new_links = <<LinkX>>

\* C6: when the batch loop has run over a list of length L >= 1 with batch
\* size n >= 1, it has processed ceil(L/n) chunks; chunk k (0-based) is
\* announced with index k*n and opens the positions k*n .. min((k+1)*n, L)-1,
\* so every chunk has n links except the last, which has between 1 and n.
C6_Chunks ==
    BatchDone =>
        LET L == Len(new_links)
            n == num_tabs
        IN  /\ Len(Headers) = CeilDiv(L, n)
            /\ \A k \in 0..(Len(Headers) - 1) :
                  /\ out[Headers[k + 1]] = Printed(MsgChunk(k * n))
                  /\ ChunkUrls(k + 1) = SubSeq(new_links, k * n + 1, Min((k + 1) * n, L))
                  /\ Len(ChunkUrls(k + 1)) >= 1
                  /\ Len(ChunkUrls(k + 1)) <= n
                  /\ (k + 1 < Len(Headers) => Len(ChunkUrls(k + 1)) = n)

\* Two chunks, the last one shorter.
C6_Witness ==
    /\ BatchDone
    /\ Len(new_links) = 3
    /\ num_tabs = 2
    /\ Len(Headers) = 2
    /\ Len(ChunkUrls(2)) = 1

\* C7: in the batch loop (n >= 1, non-empty list) the sleeps and the chunks
\* alternate: the k-th sleep comes after the k-th chunk header and after
\* every open of that chunk, and before the next header; every open lies
\* between the header and the sleep of its chunk; and when the loop is over
\* there are as many sleeps as chunks and the run has ended with a sleep.
C7_SleepAfterEveryChunk ==
    (new_links # <<>> /\ num_tabs >= 1) =>
        /\ Len(Sleeps) <= Len(Headers)
        /\ Len(Headers) <= Len(Sleeps) + 1
        /\ \A k \in 1..Len(Sleeps) :
              /\ Headers[k] < Sleeps[k]
              /\ (k < Len(Headers) => Sleeps[k] < Headers[k + 1])
        /\ \A m \in 1..Len(Opens) :
              \E k \in 1..Len(Headers) :
                  /\ Headers[k] < Opens[m]
                  /\ (k <= Len(Sleeps) => Opens[m] < Sleeps[k])
                  /\ (k > 1 => Sleeps[k - 1] < Opens[m])
        /\ (pc = "done" =>
              /\ Len(Headers) >= 1
              /\ Len(Sleeps) = Len(Headers)
              /\ LastOut = Slept(duration))

\* Three chunks and three sleeps, the last sleep after the last open.
C7_Witness ==
    /\ pc = "done"
    /\ num_tabs = 1
    /\ Len(new_links) = 3
    /\ Len(Sleeps) = 3
    /\ Opens[3] < Sleeps[3]
    /\ LastOut = Slept(duration)

\* C8: when args.followers or args.followings is empty, main prints the
\* 'provide both files' message and returns: nothing is read, no count is
\* printed, no link is opened and there is no sleep.
C8_MissingPath ==
    (followers_file = "" \/ followings_file = "") =>
        /\ pc \in {"check_args", "done"}
        /\ (pc = "check_args" => out = <<>>)
        /\ (pc = "done" => out = <<Printed(MsgBothFiles)>>)
        /\ new_links = <<>>

C8_Witness ==
    /\ pc = "done"
    /\ followers_file # ""
    /\ followings_file = ""
    /\ out = <<Printed(MsgBothFiles)>>

\* C9: when the batch loop has run over a non-empty list with n >= 1, the
\* URLs passed to the browser are the list: same links, same order, same
\* number of times; while it runs they are a prefix of the list.  The
\* number of tabs opened is the count printed, and the count was printed
\* before the first open.
C9_OpensAreTheList ==
    (new_links # <<>> /\ num_tabs >= 1) =>
        /\ Len(OpenedUrls) <= Len(new_links)
        /\ OpenedUrls = SubSeq(new_links, 1, Len(OpenedUrls))
        /\ (pc = "done" =>
              /\ OpenedUrls = new_links
              /\ \E p \in 1..Len(out) :
                    /\ out[p] = Printed(MsgCount(Len(Opens)))
                    /\ p < Opens[1])

\* A link that occurs twice in the list has been opened twice.
C9_Witness ==
    /\ pc = "done"
    /\ num_tabs = 1
    /\ new_links = <<Alice, Alice>>
    /\ OpenedUrls = <<Alice, Alice>>

\* C10: --num-tabs may be any integer; with num_tabs <= 0 and a non-empty
\* list main has printed a positive count and opens nothing: for
\* num_tabs < 0 the loop runs no iteration and main returns (no chunk
\* header, no open, no sleep, no 'no new links' message), for num_tabs = 0
\* the loop fails with an error before any open.
C10_NoTabs ==
    (new_links # <<>> /\ num_tabs <= 0) =>
        /\ out = <<Read(followers_file), Read(followings_file),
                   Printed(MsgCount(Len(new_links)))>>
        /\ Len(new_links) > 0
        /\ pc \in {"batch", "done", "error"}
        /\ (pc = "done" => num_tabs < 0)
        /\ (pc = "error" => num_tabs = 0)

C10_Witness ==
    /\ pc = "done"
    /\ num_tabs < 0
    /\ new_links # <<>>
    /\ Opens = <<>>

C10_WitnessZero ==
    /\ pc = "error"
    /\ num_tabs = 0
    /\ new_links # <<>>
    /\ Opens = <<>>

====
